---- MODULE Spec2Model ----
(***************************************************************************)
(* A model of the batch engine of legal_drive_labels_manager:              *)
(*   - process_batch_operation  (files/operations.py), the generic         *)
(*     multi-pass retrying batch processor;                                *)
(*   - FileManager.batch_update_files (files/manager.py), the grouping     *)
(*     file-label batcher;                                                 *)
(*   - single calls of FieldValue.format_value, parse_value and            *)
(*     format_search_query (labels/fields.py), FileManager.apply_label and *)
(*     bulk_apply_labels, and LabelManager.delete_label.                   *)
(* Durations are counted in half seconds (0.5 s = 1).                      *)
(***************************************************************************)
EXTENDS Integers, Sequences, FiniteSets, TLC

(***************************************************************************)
(* Bounds of the model.                                                    *)
(***************************************************************************)
MaxItems == 3
MaxRetry == 3
MaxOps == 3

(***************************************************************************)
(* Program constants.                                                      *)
(***************************************************************************)
\* min(pause_seconds * 2, 10): ten seconds, in half seconds
PauseCap == 20
\* progress is reported when i % 5 == 0
ProgressEvery == 5

\* the batch_size arguments tried (the default is 10)
BatchSizes == {1, 2}
\* the pause_seconds arguments tried, in half seconds (the default is 0.5 s)
PauseArgs == {0, 1, 24}

\* What one call of operation_func(item) can do: return a truthy value, return
\* a falsy value, raise HttpError with a status, raise another Exception.
Outcomes == {"ok", "false", "http429", "http403", "http500", "error"}
HttpStatus(out) == CASE out = "http429" -> 429
                     [] out = "http403" -> 403
                     [] out = "http500" -> 500
                     [] OTHER -> 0
IsHttpError(out) == out \in {"http429", "http403", "http500"}
Raises(out) == IsHttpError(out) \/ out = "error"

NoEmission == [current |-> -1, total |-> -1, message |-> "-"]
NoStep == [item |-> 0, outcome |-> "-", slept |-> -1]

VARIABLES
  \* ---- process_batch_operation: arguments
  batch_data,        \* the items, a sequence of item identities
  retry_count,
  batch_size,
  pause_seconds,     \* the (mutable) parameter pause_seconds
  progress_callback, \* whether a callback was given
  logger,            \* whether an audit logger was given
  \* ---- process_batch_operation: locals
  results,           \* the results dictionary
  current_batch,
  new_failed_items,
  retry,             \* the loop variable of the pass loop
  i,                 \* the loop variable of the item loop (0-based)
  pc,                \* position in the function
  \* ---- process_batch_operation: what the run did (observations)
  calls,             \* item -> number of invocations of operation_func
  succeeded,         \* items for which some invocation returned truthy
  invoked,           \* items invoked in the current pass, in order
  failedThisPass,    \* items whose invocation failed in the current pass
  prevFailed,        \* items whose invocation failed in the previous pass
  passes,            \* passes begun
  delays,            \* number of time.sleep(retry_delay)
  last,              \* the latest item step: item, outcome, pause slept
  emitted,           \* the latest progress emission
  emissions,         \* number of progress emissions
  audits,            \* the audit records written (logger.log_action)
  \* ---- batch_update_files: arguments
  operations,        \* the input operations, a sequence of records
  file_batch_size,   \* the parameter batch_size
  \* ---- batch_update_files: locals
  buf_results,       \* the results dictionary
  file_groups,       \* the dict file_groups, in insertion order
  label_operations,  \* the dict label_operations of the current file
  group_count,
  processed_count,
  label_pos,         \* position of the iteration over label_operations
  buf_pc,            \* position in the method
  \* ---- batch_update_files: what the run did (observations)
  api_calls,         \* the modifyLabels calls executed, in order
  fetches,           \* the label_manager.get_label calls, in order
  buf_emitted,       \* the latest progress emission (what a given
                     \* progress_callback receives)
  buf_emissions,     \* number of progress emissions
  buf_audit,         \* the audit records written
  buf_sleeps,        \* number of time.sleep(1.0) between file batches
  \* ---- FieldValue.format_value: one call
  fv_type,           \* the argument field_type
  fv_value,          \* the argument value
  fv_result,         \* what the call returned or raised
  fv_pc,             \* "call" before the call, "done" after it, "parsed"
                     \* after parse_value has been applied to the result
  fv_parsed,         \* what FieldValue.parse_value returned or raised
  \* ---- one call of each of the following, as the frame of the call: its
  \* ---- position, its arguments and locals, the remote calls and audit
  \* ---- records it made, and what it returned or raised
  apply_label,           \* FileManager.apply_label
  bulk_apply_labels,     \* FileManager.bulk_apply_labels
  delete_label,          \* LabelManager.delete_label
  format_search_query    \* FieldValue.format_search_query

pboArgs == <<batch_data, retry_count, batch_size, progress_callback, logger>>
pboLocals == <<pause_seconds, results, current_batch, new_failed_items, retry, i, pc>>
pboObs == <<calls, succeeded, invoked, failedThisPass, prevFailed, passes, delays,
            last, emitted, emissions, audits>>
pboVars == <<pboArgs, pboLocals, pboObs>>

bufArgs == <<operations, file_batch_size>>
bufLocals == <<buf_results, file_groups, label_operations, group_count,
               processed_count, label_pos, buf_pc>>
bufObs == <<api_calls, fetches, buf_emitted, buf_emissions, buf_audit, buf_sleeps>>
bufVars == <<bufArgs, bufLocals, bufObs>>

fvVars == <<fv_type, fv_value, fv_result, fv_pc, fv_parsed>>

callVars == <<apply_label, bulk_apply_labels, delete_label, format_search_query>>

vars == <<pboVars, bufVars, fvVars, callVars>>

Min(a, b) == IF a < b THEN a ELSE b

(***************************************************************************)
(* process_batch_operation                                                 *)
(***************************************************************************)


\* ---- variants used to test the claims' sensitivity to the code
CountFailure_EveryPass(res, r, idx) ==
  [res EXCEPT !.failed = @ + 1, !.errors = Append(@, idx + 1)]

BreakNow_Never(nf) == FALSE

NextBatch_Keep(cb, nf) == cb

\* results = {"total": len(batch_data), "successful": 0, ...}
InitialResults(data) ==
  [total |-> Len(data), successful |-> 0, failed |-> 0, skipped |-> 0,
   errors |-> <<>>, retry_attempts |-> 0]

\* a variant that leaves failed alone on a retry success
CountSuccess_NoMove(res, r) ==
  [res EXCEPT !.successful = @ + 1]

\* if success: successful += 1, and on a retry pass also failed -= 1
CountSuccess(res, r) ==
  IF r = 0
  THEN [res EXCEPT !.successful = @ + 1]
  ELSE [res EXCEPT !.successful = @ + 1, !.failed = @ - 1]

\* a failure is counted (and its error kept) on the initial pass only;
\* the error string is kept as the item number "Item {i+1}"
CountFailure(res, r, idx) ==
  IF r = 0
  THEN [res EXCEPT !.failed = @ + 1, !.errors = Append(@, idx + 1)]
  ELSE res

Requeue_Never(nf, item, r, rc) == nf

\* if retry < retry_count: new_failed_items.append(item)
Requeue(nf, item, r, rc) ==
  IF r < rc THEN Append(nf, item) ELSE nf

Backoff_Uncapped(pause, out) ==
  IF HttpStatus(out) = 429 THEN pause * 2 ELSE pause

\* pause_seconds = min(pause_seconds * 2, 10) when the status is 429
Backoff(pause, out) ==
  IF HttpStatus(out) = 429 THEN Min(pause * 2, PauseCap) ELSE pause

\* if (i + 1) % batch_size == 0 and i + 1 < len(current_batch): time.sleep(pause)
\* The statement is in the try body after the call: a raised error skips it.
PauseAfter(out, idx, size, len, pause) ==
  IF ~Raises(out) /\ (idx + 1) % size = 0 /\ idx + 1 < len THEN pause ELSE -1

\* ---- variants used to test the claims' sensitivity to the code
Caught_HttpErrorOnly(out) == IsHttpError(out)

\* except HttpError / except Exception: which outcomes the handlers catch
Caught(out) == TRUE

\* results["skipped"] = len(current_batch)
FinalSkipped(cb) == Len(cb)

\* if not new_failed_items: break
BreakNow(nf) == nf = <<>>

\* current_batch = new_failed_items
NextBatch(cb, nf) == nf

\* for retry in range(retry_count + 1): whether another pass follows pass r
MorePasses(r, rc) == r < rc

\* the progress emission at the head of an item step
ItemEmission(res, r, idx) ==
  [current |-> res.successful + res.skipped + idx, total |-> res.total,
   message |-> IF r > 0 THEN "Retry" ELSE "None"]

\* if logger: logger.log_action(...)
Logs(lg) == lg

\* the counts in the description of the audit record:
\* "{successful} of {total} successful, {failed} failed, {skipped} skipped"
AuditRecord(res) ==
  [total |-> res.total, successful |-> res.successful, failed |-> res.failed,
   skipped |-> res.skipped]

\* a variant that reports the count the other emissions report
FinalEmission_Counted(res) ==
  [current |-> res.successful + res.skipped, total |-> res.total, message |-> "Complete"]

\* progress_callback(results["total"], results["total"], "Complete")
FinalEmission(res) ==
  [current |-> res.total, total |-> res.total, message |-> "Complete"]

\* the result of a call that has not been made
NoResult == [raised |-> "-", key |-> "-", sub |-> "-", text |-> <<>>, int |-> 0]

\* the result of a parse_value call that has not been made
NoParsed == [raised |-> "-"]

\* a function that is not being called
NoCall == [pc |-> "idle"]

\* FieldValue.format_value is not running
IdleFV ==
  /\ fv_type = [kind |-> "none", name |-> "-"]
  /\ fv_value = [kind |-> "none", chars |-> <<>>, int |-> 0]
  /\ fv_result = NoResult
  /\ fv_pc = "idle"
  /\ fv_parsed = NoParsed

\* process_batch_operation is not running
IdlePBO ==
  /\ batch_data = <<>> /\ retry_count = 0 /\ batch_size = 1 /\ pause_seconds = 0
  /\ progress_callback = FALSE /\ logger = FALSE
  /\ results = InitialResults(<<>>)
  /\ current_batch = <<>> /\ new_failed_items = <<>> /\ retry = 0 /\ i = 0
  /\ pc = "idle"
  /\ calls = <<>> /\ succeeded = {} /\ invoked = <<>> /\ failedThisPass = <<>>
  /\ prevFailed = <<>> /\ passes = 0 /\ delays = 0 /\ last = NoStep
  /\ emitted = NoEmission /\ emissions = 0 /\ audits = <<>>

\* none of the single-call functions is running
IdleCalls ==
  /\ apply_label = NoCall
  /\ bulk_apply_labels = NoCall
  /\ delete_label = NoCall
  /\ format_search_query = NoCall

\* batch_update_files is not running
IdleBUF ==
  /\ operations = <<>> /\ file_batch_size = 1
  /\ buf_results = [total |-> 0, successful |-> 0, failed |-> 0,
                    results |-> <<>>, errors |-> 0]
  /\ file_groups = <<>> /\ label_operations = <<>> /\ group_count = 0
  /\ processed_count = 0 /\ label_pos = 0 /\ buf_pc = "idle"
  /\ api_calls = <<>> /\ fetches = <<>> /\ buf_emitted = NoEmission
  /\ buf_emissions = 0 /\ buf_audit = <<>> /\ buf_sleeps = 0


InitPBO ==
  /\ \E n \in 0..MaxItems : batch_data = [k \in 1..n |-> k]
  /\ retry_count \in 0..MaxRetry
  /\ batch_size \in BatchSizes
  /\ pause_seconds \in PauseArgs
  /\ progress_callback \in BOOLEAN
  /\ logger \in BOOLEAN
  /\ results = InitialResults(batch_data)
  /\ current_batch = batch_data
  /\ new_failed_items = <<>>
  /\ retry = 0
  /\ i = 0
  /\ pc = "items"
  /\ calls = [k \in 1..Len(batch_data) |-> 0]
  /\ succeeded = {}
  /\ invoked = <<>>
  /\ failedThisPass = <<>>
  /\ prevFailed = <<>>
  /\ passes = 1
  /\ delays = 0
  /\ last = NoStep
  /\ emitted = NoEmission
  /\ emissions = 0
  /\ audits = <<>>
  /\ IdleBUF
  /\ IdleFV
  /\ IdleCalls

\* the smallest batch in which an item loop reaches a second progress report
\* (i % 5 == 0 with i > 0)
ReportingItems == ProgressEvery + 1

\* A call with a batch long enough for a progress report inside the item loop,
\* a progress_callback, at most one retry pass and the default pause.
InitPBOReporting ==
  /\ batch_data = [k \in 1..ReportingItems |-> k]
  /\ retry_count \in {0, 1}
  /\ batch_size \in BatchSizes
  /\ pause_seconds = 1
  /\ progress_callback = TRUE
  /\ logger = FALSE
  /\ results = InitialResults(batch_data)
  /\ current_batch = batch_data
  /\ new_failed_items = <<>>
  /\ retry = 0
  /\ i = 0
  /\ pc = "items"
  /\ calls = [k \in 1..Len(batch_data) |-> 0]
  /\ succeeded = {}
  /\ invoked = <<>>
  /\ failedThisPass = <<>>
  /\ prevFailed = <<>>
  /\ passes = 1
  /\ delays = 0
  /\ last = NoStep
  /\ emitted = NoEmission
  /\ emissions = 0
  /\ audits = <<>>
  /\ IdleBUF
  /\ IdleFV
  /\ IdleCalls

\* One iteration of "for i, item in enumerate(current_batch)".
ProcessItem(out) ==
  /\ pc = "items"
  /\ i < Len(current_batch)
  /\ LET item == current_batch[i + 1]
         emit == progress_callback /\ i % ProgressEvery = 0
         slept == PauseAfter(out, i, batch_size, Len(current_batch), pause_seconds)
     IN
     /\ emitted' = IF emit THEN ItemEmission(results, retry, i) ELSE emitted
     /\ emissions' = IF emit THEN emissions + 1 ELSE emissions
     /\ calls' = [calls EXCEPT ![item] = @ + 1]
     /\ invoked' = Append(invoked, item)
     /\ last' = [item |-> item, outcome |-> out, slept |-> slept]
     /\ IF out = "ok"
        THEN /\ results' = CountSuccess(results, retry)
             /\ succeeded' = succeeded \cup {item}
             /\ UNCHANGED <<new_failed_items, failedThisPass, pause_seconds>>
             /\ i' = i + 1
             /\ pc' = "items"
        ELSE IF Raises(out) /\ ~Caught(out)
        THEN /\ pc' = "raised"
             /\ UNCHANGED <<results, succeeded, new_failed_items, failedThisPass,
                            pause_seconds, i>>
        ELSE /\ new_failed_items' = Requeue(new_failed_items, item, retry, retry_count)
             /\ results' = CountFailure(results, retry, i)
             /\ failedThisPass' = Append(failedThisPass, item)
             /\ pause_seconds' = Backoff(pause_seconds, out)
             /\ UNCHANGED succeeded
             /\ i' = i + 1
             /\ pc' = "items"
  /\ UNCHANGED <<pboArgs, current_batch, retry, prevFailed, passes, delays, audits>>
  /\ UNCHANGED <<bufVars, fvVars, callVars>>

\* After the item loop: "if not new_failed_items: break", else
\* "current_batch = new_failed_items" and the next iteration of the pass loop.
EndPass ==
  /\ pc = "items"
  /\ i = Len(current_batch)
  /\ IF BreakNow(new_failed_items)
     THEN /\ pc' = "finish"
          /\ UNCHANGED <<current_batch, retry>>
     ELSE /\ current_batch' = NextBatch(current_batch, new_failed_items)
          /\ IF MorePasses(retry, retry_count)
             THEN /\ retry' = retry + 1
                  /\ pc' = "retry_head"
             ELSE /\ pc' = "finish"
                  /\ UNCHANGED retry
  /\ UNCHANGED <<pboArgs, pause_seconds, results, new_failed_items, i, pboObs>>
  /\ UNCHANGED <<bufVars, fvVars, callVars>>

\* The head of a retry pass (retry > 0): count the attempt, report progress,
\* time.sleep(retry_delay), new_failed_items = [].
RetryHead ==
  /\ pc = "retry_head"
  /\ results' = [results EXCEPT !.retry_attempts = @ + 1]
  /\ emitted' = IF progress_callback
                THEN [current |-> results.successful + results.skipped,
                      total |-> results.total, message |-> "Retry"]
                ELSE emitted
  /\ emissions' = IF progress_callback THEN emissions + 1 ELSE emissions
  /\ delays' = delays + 1
  /\ passes' = passes + 1
  /\ new_failed_items' = <<>>
  /\ prevFailed' = failedThisPass
  /\ failedThisPass' = <<>>
  /\ invoked' = <<>>
  /\ i' = 0
  /\ pc' = "items"
  /\ UNCHANGED <<pboArgs, pause_seconds, current_batch, retry, calls, succeeded,
                 last, audits>>
  /\ UNCHANGED <<bufVars, fvVars, callVars>>

\* After the pass loop: skipped, the audit record, the final progress emission.
Finish ==
  /\ pc = "finish"
  /\ results' = [results EXCEPT !.skipped = FinalSkipped(current_batch)]
  /\ audits' = IF Logs(logger) THEN Append(audits, AuditRecord(results')) ELSE audits
  /\ emitted' = IF progress_callback THEN FinalEmission(results') ELSE emitted
  /\ emissions' = IF progress_callback THEN emissions + 1 ELSE emissions
  /\ pc' = "done"
  /\ UNCHANGED <<pboArgs, pause_seconds, current_batch, new_failed_items, retry, i,
                 calls, succeeded, invoked, failedThisPass, prevFailed, passes,
                 delays, last>>
  /\ UNCHANGED <<bufVars, fvVars, callVars>>

NextPBO ==
  \/ \E out \in Outcomes : ProcessItem(out)
  \/ EndPass
  \/ RetryHead
  \/ Finish



(***************************************************************************)
(* FileManager.batch_update_files                                          *)
(***************************************************************************)

\* op.get("value") is None (or the key is missing)
NoValue == "None"

\* An operation dictionary; a missing or empty id is "".
Op(kind, file, label, field, value) ==
  [operation |-> kind, file_id |-> file, label_id |-> label,
   field_id |-> field, value |-> value]

\* Strings that match ^[a-zA-Z0-9_-]+$
PlainIds == {"F1", "F2"}
\* A Drive link to a file: matches the pattern /file/d/([a-zA-Z0-9_-]+)
FileUrl(id) == "https://drive.google.com/file/d/" \o id \o "/view"

\* FileManager.extract_file_id: a plain id is returned as it is, the id is cut
\* out of a link, and any other string is returned unchanged.
ExtractFileId(s) ==
  IF s \in PlainIds THEN s
  ELSE IF \E id \in PlainIds : s = FileUrl(id)
       THEN CHOOSE id \in PlainIds : s = FileUrl(id)
       ELSE s

\* The operations the input lists are drawn from (a list may hold one several
\* times): each kind of operation on the key (F1, L1), with and without a field
\* and a value; operations on another file and on another label, one of them
\* with the file given as a link; and operations with no file or no label.
OpPool ==
  { Op("remove", "F1", "L1", "", NoValue),
    Op("unset",  "F1", "L1", "f1", NoValue),
    Op("apply",  "F1", "L1", "f1", "42"),
    Op("update", "F1", "L1", "f2", "abc"),
    Op("apply",  "F1", "L1", "f2", NoValue),
    Op("apply",  "F1", "L1", "", NoValue),
    Op("apply",  FileUrl("F1"), "L2", "f1", "42"),
    Op("remove", "F2", "L1", "", NoValue),
    Op("apply",  "", "L1", "f1", "42"),
    Op("remove", "F1", "", "", NoValue) }

\* the batch_size arguments tried (the configured default is 50)
FileBatchSizes == {1}

\* What label_manager.get_label(label_id) gives for a field: it raises, or
\* the label it returns has no field of that id, or the field with its type.
SchemaTypes == {"INTEGER"}
Lookups == {"error", "absent"} \cup SchemaTypes
NoLookup == "-"

\* the strings int() parses
ParsesAsInt == {"42"}

MissingFile_Never(op) == FALSE

\* file_id = op.get("file_id"); if not file_id: continue
MissingFile(op) == op.file_id = ""
\* label_id = op.get("label_id"); if not label_id: continue
MissingLabel(op) == op.label_id = ""

Position(groups, key) ==
  IF \E k \in 1..Len(groups) : groups[k].key = key
  THEN CHOOSE k \in 1..Len(groups) : groups[k].key = key
  ELSE 0

\* "Group operations by file_id": file_groups, a dict in insertion order, as a
\* sequence of [key, ops]; an operation is kept as its position in the input.
RECURSIVE GroupFilesFrom(_, _, _)
GroupFilesFrom(ops, k, groups) ==
  IF k > Len(ops) THEN groups
  ELSE IF MissingFile(ops[k]) THEN GroupFilesFrom(ops, k + 1, groups)
  ELSE LET fid == ExtractFileId(ops[k].file_id)
           pos == Position(groups, fid)
       IN IF pos = 0
          THEN GroupFilesFrom(ops, k + 1, Append(groups, [key |-> fid, ops |-> <<k>>]))
          ELSE GroupFilesFrom(ops, k + 1, [groups EXCEPT ![pos].ops = Append(@, k)])

\* a variant that iterates the file groups newest first
GroupFiles_NewestFirst(ops) ==
  LET g == GroupFilesFrom(ops, 1, <<>>)
  IN [k \in 1..Len(g) |-> g[Len(g) + 1 - k]]

GroupFiles(ops) == GroupFilesFrom(ops, 1, <<>>)

\* "Group operations by label_id" and "Categorize operation": label_operations,
\* a dict in insertion order, as a sequence of [key, apply, remove].
RECURSIVE GroupLabelsFrom(_, _, _, _)
GroupLabelsFrom(ops, file_ops, k, groups) ==
  IF k > Len(file_ops) THEN groups
  ELSE LET n == file_ops[k]
           op == ops[n]
           pos == Position(groups, op.label_id)
           g0 == IF pos = 0
                 THEN Append(groups, [key |-> op.label_id, apply |-> <<>>, remove |-> <<>>])
                 ELSE groups
           at == IF pos = 0 THEN Len(g0) ELSE pos
       IN IF MissingLabel(op) THEN GroupLabelsFrom(ops, file_ops, k + 1, groups)
          ELSE IF op.operation = "remove"
          THEN GroupLabelsFrom(ops, file_ops, k + 1, [g0 EXCEPT ![at].remove = Append(@, n)])
          ELSE GroupLabelsFrom(ops, file_ops, k + 1, [g0 EXCEPT ![at].apply = Append(@, n)])

GroupLabels(ops, file_ops) == GroupLabelsFrom(ops, file_ops, 1, <<>>)

\* Whether the loop over label_ops["apply"] calls get_label for the operation:
\* it has a field id, is an apply or an update, and its value is not None.
NeedsLookup(op) ==
  op.field_id # "" /\ op.operation \in {"apply", "update"} /\ op.value # NoValue

\* The function _create_field_modification as written (it is defined at module
\* level, after the class): the wire key of the field type, text for an
\* unknown type; int(value) raises for a string that is no number.
CreateFieldModification(field_id, field_type, value) ==
  CASE field_type = "SELECTION" ->
         [raised |-> FALSE, fieldId |-> field_id, key |-> "setSelectionValues", value |-> value]
    [] field_type \in {"TEXT", "LONG_TEXT"} ->
         [raised |-> FALSE, fieldId |-> field_id, key |-> "setTextValues", value |-> value]
    [] field_type = "INTEGER" ->
         IF value \in ParsesAsInt
         THEN [raised |-> FALSE, fieldId |-> field_id, key |-> "setIntegerValues", value |-> value]
         ELSE [raised |-> TRUE, fieldId |-> field_id, key |-> "ValueError", value |-> value]
    [] field_type = "DATE" ->
         [raised |-> FALSE, fieldId |-> field_id, key |-> "setDateValues", value |-> value]
    [] field_type = "USER" ->
         [raised |-> FALSE, fieldId |-> field_id, key |-> "setUserValues", value |-> value]
    [] OTHER ->
         [raised |-> FALSE, fieldId |-> field_id, key |-> "setTextValues", value |-> value]

\* Whether FileManager has the attribute _create_field_modification: the def
\* stands at column 0 after the class body, so the class does not have it.
HasCreateFieldModification == FALSE

\* self._create_field_modification(field_id, field_type, value)
SelfCreateFieldModification(field_id, field_type, value) ==
  IF HasCreateFieldModification
  THEN CreateFieldModification(field_id, field_type, value)
  ELSE [raised |-> TRUE, fieldId |-> field_id, key |-> "AttributeError", value |-> value]

\* "Default to text if label info not available"
TextFallback(field_id, value) ==
  [fieldId |-> field_id, key |-> "setTextValues", value |-> value]

Unraised(m) == [fieldId |-> m.fieldId, key |-> m.key, value |-> m.value]

\* The field modifications one operation of label_ops["apply"] appends, given
\* what get_label gave (lk): none or one.
ModificationsOf(op, lk) ==
  IF op.field_id = "" THEN <<>>
  ELSE IF op.operation \in {"apply", "update"}
  THEN IF op.value = NoValue THEN <<>>
       ELSE IF lk = "error" THEN <<TextFallback(op.field_id, op.value)>>
       ELSE IF lk = "absent" THEN <<>>
       ELSE LET m == SelfCreateFieldModification(op.field_id, lk, op.value)
            IN IF m.raised THEN <<TextFallback(op.field_id, op.value)>>
               ELSE <<Unraised(m)>>
  ELSE IF op.operation = "unset"
  THEN <<[fieldId |-> op.field_id, key |-> "unsetValues", value |-> "True"]>>
  ELSE <<>>

\* field_modifications after the loop over label_ops["apply"]
RECURSIVE BuildFrom(_, _, _, _, _)
BuildFrom(ops, apply, lks, k, mods) ==
  IF k > Len(apply) THEN mods
  ELSE BuildFrom(ops, apply, lks, k + 1, mods \o ModificationsOf(ops[apply[k]], lks[k]))

FieldModifications(ops, apply, lks) == BuildFrom(ops, apply, lks, 1, <<>>)

\* the get_label calls of that loop
RECURSIVE FetchesFrom(_, _, _, _, _, _)
FetchesFrom(ops, label_id, apply, lks, k, got) ==
  IF k > Len(apply) THEN got
  ELSE IF NeedsLookup(ops[apply[k]])
  THEN FetchesFrom(ops, label_id, apply, lks, k + 1,
         Append(got, [label_id |-> label_id, field_id |-> ops[apply[k]].field_id,
                      op |-> apply[k], gave |-> lks[k]]))
  ELSE FetchesFrom(ops, label_id, apply, lks, k + 1, got)

\* the outcome records appended for the operations of one sub-list
RECURSIVE Records(_, _, _, _, _, _)
Records(ops, list, file_id, label_id, success, k) ==
  IF k > Len(list) THEN <<>>
  ELSE <<[op |-> list[k], operation |-> ops[list[k]].operation, file_id |-> file_id,
          label_id |-> label_id, success |-> success]>>
       \o Records(ops, list, file_id, label_id, success, k + 1)

\* results after one modifyLabels call for the operations of a sub-list
Mark(res, ops, list, file_id, label_id, ok) ==
  IF ok
  THEN [res EXCEPT !.successful = @ + Len(list),
                   !.results = @ \o Records(ops, list, file_id, label_id, TRUE, 1)]
  ELSE [res EXCEPT !.failed = @ + Len(list),
                   !.errors = @ + Len(list),
                   !.results = @ \o Records(ops, list, file_id, label_id, FALSE, 1)]

\* except Exception around each modifyLabels call: whether it catches the error
BufCaught == TRUE

\* "Process 'apply' operations first (includes update/unset)": the state st is
\* [results, calls, fetches, processed, raised].
ApplyPhase(st, ops, file_id, le, lks, ok) ==
  IF le.apply = <<>> \/ st.raised THEN st
  ELSE LET mods == FieldModifications(ops, le.apply, lks)
           got == FetchesFrom(ops, le.key, le.apply, lks, 1, <<>>)
           call == [fileId |-> file_id, labelId |-> le.key, removeLabel |-> FALSE,
                    fieldModifications |-> mods, ok |-> ok, ops |-> le.apply]
       IN IF mods = <<>> THEN [st EXCEPT !.fetches = @ \o got]
          ELSE IF ~ok /\ ~BufCaught
          THEN [st EXCEPT !.fetches = @ \o got, !.calls = Append(@, call), !.raised = TRUE]
          ELSE [st EXCEPT !.fetches = @ \o got,
                          !.calls = Append(@, call),
                          !.results = Mark(@, ops, le.apply, file_id, le.key, ok),
                          !.processed = @ + Len(le.apply)]

\* "Now process 'remove' operations"
RemovePhase(st, ops, file_id, le, ok) ==
  IF le.remove = <<>> \/ st.raised THEN st
  ELSE LET call == [fileId |-> file_id, labelId |-> le.key, removeLabel |-> TRUE,
                    fieldModifications |-> <<>>, ok |-> ok, ops |-> le.remove]
       IN IF ~ok /\ ~BufCaught
          THEN [st EXCEPT !.calls = Append(@, call), !.raised = TRUE]
          ELSE [st EXCEPT !.calls = Append(@, call),
                          !.results = Mark(@, ops, le.remove, file_id, le.key, ok),
                          !.processed = @ + Len(le.remove)]

\* a variant that removes the label before it modifies the fields
LabelStep_RemoveFirst(st, ops, file_id, le, lks, okApply, okRemove) ==
  ApplyPhase(RemovePhase(st, ops, file_id, le, okRemove), ops, file_id, le, lks, okApply)

\* the body of "for label_id, label_ops in label_operations.items()"
LabelStep(st, ops, file_id, le, lks, okApply, okRemove) ==
  RemovePhase(ApplyPhase(st, ops, file_id, le, lks, okApply), ops, file_id, le, okRemove)

\* the lookups that can happen for a sub-list: one per operation that needs one
LookupChoices(ops, apply) ==
  LET need == {k \in 1..Len(apply) : NeedsLookup(ops[apply[k]])}
  IN { [k \in 1..Len(apply) |-> IF k \in need THEN g[k] ELSE NoLookup] :
         g \in [need -> Lookups] }

\* a variant that logs the number of records in place of the successes
BufAuditRecord_Records(res) ==
  [successful |-> Len(res.results), failed |-> res.failed]

\* self.logger.log_action("batch_update_files", str(len(operations)),
\*   f"Batch update: {successful} successful, {failed} failed")
BufAuditRecord(res) == [successful |-> res.successful, failed |-> res.failed]

\* progress_callback(len(operations), len(operations), "Complete")
BufFinalEmission(ops) ==
  [current |-> Len(ops), total |-> Len(ops), message |-> "Complete"]

\* time.sleep(1.0) after the file batch that ends with the g-th of n files
SleepsAfterFile(g, n, size) == IF g % size = 0 /\ g < n THEN 1 ELSE 0

InitBUF ==
  /\ \E n \in 0..MaxOps : operations \in [1..n -> OpPool]
  /\ file_batch_size \in FileBatchSizes
  /\ buf_results = [total |-> Len(operations), successful |-> 0, failed |-> 0,
                    results |-> <<>>, errors |-> 0]
  /\ file_groups = <<>>
  /\ label_operations = <<>>
  /\ group_count = 0
  /\ processed_count = 0
  /\ label_pos = 0
  /\ buf_pc = "group"
  /\ api_calls = <<>>
  /\ fetches = <<>>
  /\ buf_emitted = NoEmission
  /\ buf_emissions = 0
  /\ buf_audit = <<>>
  /\ buf_sleeps = 0
  /\ IdlePBO
  /\ IdleFV
  /\ IdleCalls

\* "Group operations by file_id to minimize API calls"
GroupByFile ==
  /\ buf_pc = "group"
  /\ file_groups' = GroupFiles(operations)
  /\ buf_pc' = "files"
  /\ UNCHANGED <<bufArgs, buf_results, label_operations, group_count,
                 processed_count, label_pos, bufObs>>
  /\ UNCHANGED <<pboVars, fvVars, callVars>>

\* The head of "for file_id in batch_file_ids": the progress emission and the
\* grouping of the file's operations by label.
BeginFile ==
  /\ buf_pc = "files"
  /\ group_count < Len(file_groups)
  /\ group_count' = group_count + 1
  /\ buf_emitted' = [current |-> processed_count, total |-> Len(operations),
                     message |-> "Processing file"]
  /\ buf_emissions' = buf_emissions + 1
  /\ label_operations' = GroupLabels(operations, file_groups[group_count + 1].ops)
  /\ label_pos' = 0
  /\ buf_pc' = "labels"
  /\ UNCHANGED <<bufArgs, buf_results, file_groups, processed_count,
                 api_calls, fetches, buf_audit, buf_sleeps>>
  /\ UNCHANGED <<pboVars, fvVars, callVars>>

\* One iteration of the loop over label_operations: the apply-like call, then
\* the remove call.
ProcessLabel ==
  /\ buf_pc = "labels"
  /\ label_pos < Len(label_operations)
  /\ LET le == label_operations[label_pos + 1]
         file_id == file_groups[group_count].key
         st0 == [results |-> buf_results, calls |-> api_calls, fetches |-> fetches,
                 processed |-> processed_count, raised |-> FALSE]
     IN \E lks \in LookupChoices(operations, le.apply), okApply, okRemove \in BOOLEAN :
          LET st == LabelStep(st0, operations, file_id, le, lks, okApply, okRemove)
          IN /\ buf_results' = st.results
             /\ api_calls' = st.calls
             /\ fetches' = st.fetches
             /\ processed_count' = st.processed
             /\ buf_pc' = IF st.raised THEN "raised" ELSE "labels"
  /\ label_pos' = label_pos + 1
  /\ UNCHANGED <<bufArgs, file_groups, label_operations, group_count,
                 buf_emitted, buf_emissions, buf_audit, buf_sleeps>>
  /\ UNCHANGED <<pboVars, fvVars, callVars>>

\* The end of the file's iteration: the progress emission, and the pause after
\* the last file of a file batch.
EndFile ==
  /\ buf_pc = "labels"
  /\ label_pos = Len(label_operations)
  /\ buf_emitted' = [current |-> processed_count, total |-> Len(operations),
                     message |-> "None"]
  /\ buf_emissions' = buf_emissions + 1
  /\ buf_sleeps' = buf_sleeps + SleepsAfterFile(group_count, Len(file_groups), file_batch_size)
  /\ buf_pc' = "files"
  /\ UNCHANGED <<bufArgs, buf_results, file_groups, label_operations, group_count,
                 processed_count, label_pos, api_calls, fetches, buf_audit>>
  /\ UNCHANGED <<pboVars, fvVars, callVars>>

\* After the loops: the final progress emission, the audit record, return.
FinishBUF ==
  /\ buf_pc = "files"
  /\ group_count = Len(file_groups)
  /\ buf_emitted' = BufFinalEmission(operations)
  /\ buf_emissions' = buf_emissions + 1
  /\ buf_audit' = Append(buf_audit, BufAuditRecord(buf_results))
  /\ buf_pc' = "done"
  /\ UNCHANGED <<bufArgs, buf_results, file_groups, label_operations, group_count,
                 processed_count, label_pos, api_calls, fetches, buf_sleeps>>
  /\ UNCHANGED <<pboVars, fvVars, callVars>>

NextBUF ==
  \/ GroupByFile
  \/ BeginFile
  \/ ProcessLabel
  \/ EndFile
  \/ FinishBUF



(***************************************************************************)
(* FieldType and FieldValue.format_value (labels/fields.py)                *)
(*                                                                         *)
(* A Python value is a record: a str with its characters, an int, None, or *)
(* a dict with its items in insertion order (string keys, str values).     *)
(***************************************************************************)
PyStr(c) == [kind |-> "str", chars |-> c, int |-> 0]
PyInt(n) == [kind |-> "int", chars |-> <<>>, int |-> n]
PyNone == [kind |-> "none", chars |-> <<>>, int |-> 0]
PyDict(items) == [kind |-> "dict", chars |-> <<>>, int |-> 0, items |-> items]

\* key in d
HasKey(d, key) == \E k \in 1..Len(d.items) : d.items[k][1] = key
\* d[key]
ItemOf(d, key) ==
  PyStr(d.items[CHOOSE k \in 1..Len(d.items) : d.items[k][1] = key][2])

\* the characters of the dict keys used
KeyChars(key) ==
  CASE key = "valueId" -> <<"v", "a", "l", "u", "e", "I", "d">>
    [] key = "emailAddress" -> <<"e", "m", "a", "i", "l", "A", "d", "d", "r", "e", "s", "s">>
    [] OTHER -> <<"d", "i", "s", "p", "l", "a", "y", "N", "a", "m", "e">>

\* repr of a str without quotes or escapes
ReprStr(c) == <<"'">> \o c \o <<"'">>

\* the items of str(d): 'key': 'value', separated by ", "
RECURSIVE ReprItems(_)
ReprItems(items) ==
  IF items = <<>> THEN <<>>
  ELSE ReprStr(KeyChars(items[1][1])) \o <<":", " ">> \o ReprStr(items[1][2])
       \o (IF Len(items) > 1 THEN <<",", " ">> ELSE <<>>) \o ReprItems(Tail(items))

Digits == <<"0", "1", "2", "3", "4", "5", "6", "7", "8", "9">>
DigitVal(c) == (CHOOSE d \in 1..10 : Digits[d] = c) - 1
IsDigit(c) == \E d \in 1..10 : Digits[d] = c

\* str(n) for an int
RECURSIVE Decimal(_)
Decimal(n) ==
  IF n < 0 THEN <<"-">> \o Decimal(0 - n)
  ELSE IF n < 10 THEN <<Digits[n + 1]>>
  ELSE Decimal(n \div 10) \o <<Digits[(n % 10) + 1]>>

\* str(value)
StrOf(v) ==
  CASE v.kind = "str" -> v.chars
    [] v.kind = "int" -> Decimal(v.int)
    [] v.kind = "dict" -> <<"{">> \o ReprItems(v.items) \o <<"}">>
    [] OTHER -> <<"N", "o", "n", "e">>

\* text.strip(): without the leading and trailing blanks
RECURSIVE Strip(_)
Strip(c) ==
  IF c = <<>> THEN c
  ELSE IF Head(c) = " " THEN Strip(Tail(c))
  ELSE IF c[Len(c)] = " " THEN Strip(SubSeq(c, 1, Len(c) - 1))
  ELSE c

\* the number a digit string denotes
RECURSIVE NumVal(_)
NumVal(c) ==
  IF c = <<>> THEN 0 ELSE NumVal(SubSeq(c, 1, Len(c) - 1)) * 10 + DigitVal(c[Len(c)])

AllDigits(c) == c # <<>> /\ \A k \in 1..Len(c) : IsDigit(c[k])

\* int(text) for a str: blanks around, an optional sign, then digits only
IntOfStr(c) ==
  LET t == Strip(c)
      signed == t # <<>> /\ Head(t) \in {"+", "-"}
      body == IF signed THEN Tail(t) ELSE t
  IN IF AllDigits(body)
     THEN [raised |-> "", int |-> IF signed /\ Head(t) = "-" THEN 0 - NumVal(body) ELSE NumVal(body)]
     ELSE [raised |-> "ValueError", int |-> 0]

\* int(value): a str is parsed, an int is itself, None or a dict is a TypeError
IntOf(v) ==
  CASE v.kind = "str" -> IntOfStr(v.chars)
    [] v.kind = "int" -> [raised |-> "", int |-> v.int]
    [] OTHER -> [raised |-> "TypeError", int |-> 0]

\* class FieldType(Enum): the values of the members
FieldTypes == {"TEXT", "SELECTION", "INTEGER", "DATE", "USER", "LONG_TEXT"}

\* a variant that matches the member names in any case
FromString_AnyCase(name) ==
  IF name \in FieldTypes THEN [raised |-> "", name |-> name]
  ELSE IF name = "text" THEN [raised |-> "", name |-> "TEXT"]
  ELSE IF name = "Date" THEN [raised |-> "", name |-> "DATE"]
  ELSE [raised |-> "ValueError", name |-> name]

\* FieldType.from_string(value): cls(value), matched by value, or ValueError
FromString(name) ==
  IF name \in FieldTypes THEN [raised |-> "", name |-> name]
  ELSE [raised |-> "ValueError", name |-> name]

Raised(e) == [raised |-> e, key |-> "", sub |-> "", text |-> <<>>, int |-> 0]
WireText(key, sub, c) == [raised |-> "", key |-> key, sub |-> sub, text |-> c, int |-> 0]
WireInt(key, n) == [raised |-> "", key |-> key, sub |-> "", text |-> <<>>, int |-> n]
\* {key: value} for a dict value, passed as it is
WireDict(key, v) ==
  [raised |-> "", key |-> key, sub |-> "dict", text |-> <<>>, int |-> 0, dict |-> v.items]

\* if len(value) < 8: raise ValueError
DateMinLen == 8

TooShortForDate(c) == Len(c) < DateMinLen

\* try: int(value) except ValueError: raise ValueError(...): what the caller
\* sees when int() raised e (another error passes through the handler)
IntegerError(e) == IF e = "ValueError" THEN "ValueError" ELSE e

\* the branches of format_value for a member t of FieldType
FormatAs(t, v) ==
  CASE t \in {"TEXT", "LONG_TEXT"} -> WireText("textValue", "", StrOf(v))
    [] t = "INTEGER" ->
         LET n == IntOf(v)
         IN IF n.raised = "" THEN WireInt("integerValue", n.int)
            ELSE Raised(IntegerError(n.raised))
    [] t = "DATE" ->
         LET c == IF v.kind = "str" THEN v.chars ELSE StrOf(v)
         IN IF TooShortForDate(c) THEN Raised("ValueError")
            ELSE WireText("dateValue", "", c)
    [] t = "USER" ->
         IF v.kind = "dict" /\ HasKey(v, "emailAddress") THEN WireDict("userValue", v)
         ELSE WireText("userValue", "", StrOf(v))
    [] t = "SELECTION" ->
         IF v.kind = "dict" /\ HasKey(v, "valueId") THEN WireDict("selectionValue", v)
         ELSE WireText("selectionValue", "valueId", StrOf(v))
    [] OTHER -> Raised("ValueError")

\* FieldValue.format_value(field_type, value); field_type is a member of
\* FieldType, a str (converted by from_string) or something else
FormatValue(ft, v) ==
  IF ft.kind = "str"
  THEN LET t == FromString(ft.name)
       IN IF t.raised # "" THEN Raised(t.raised) ELSE FormatAs(t.name, v)
  ELSE IF ft.kind = "enum" THEN FormatAs(ft.name, v)
  ELSE Raised("ValueError")

\* the Python value stored under the key of the wire dict r
WireVal(r) ==
  IF r.sub = "dict" THEN PyDict(r.dict)
  ELSE IF r.sub # "" THEN PyDict(<< <<r.sub, r.text>> >>)
  ELSE IF r.key = "integerValue" THEN PyInt(r.int)
  ELSE PyStr(r.text)

\* value_dict.get(key, default)
Get(r, key, default) == IF r.key = key THEN WireVal(r) ELSE default

Returned(v) == [raised |-> "", val |-> v]

\* a variant that prefers the identifier
SelectionOf_IdFirst(sv) ==
  IF HasKey(sv, "valueId") THEN ItemOf(sv, "valueId")
  ELSE IF HasKey(sv, "displayName") THEN ItemOf(sv, "displayName")
  ELSE PyStr(<<>>)

\* selection_value.get("displayName", selection_value.get("valueId", ""))
SelectionOf(sv) ==
  IF HasKey(sv, "displayName") THEN ItemOf(sv, "displayName")
  ELSE IF HasKey(sv, "valueId") THEN ItemOf(sv, "valueId")
  ELSE PyStr(<<>>)

\* the branches of parse_value for a member t of FieldType
ParseAs(t, r) ==
  CASE t \in {"TEXT", "LONG_TEXT"} -> Get(r, "textValue", PyStr(<<>>))
    [] t = "INTEGER" -> Get(r, "integerValue", PyInt(0))
    [] t = "DATE" -> Get(r, "dateValue", PyStr(<<>>))
    [] t = "USER" ->
         LET user_value == Get(r, "userValue", PyDict(<<>>))
         IN IF user_value.kind = "dict" /\ HasKey(user_value, "emailAddress")
            THEN ItemOf(user_value, "emailAddress")
            ELSE user_value
    [] t = "SELECTION" ->
         LET selection_value == Get(r, "selectionValue", PyDict(<<>>))
         IN IF selection_value.kind = "dict" THEN SelectionOf(selection_value)
            ELSE selection_value
    [] OTHER -> [kind |-> "wire", wire |-> r]

\* FieldValue.parse_value(field_type, value_dict)
ParseValue(ft, r) ==
  IF ft.kind = "str"
  THEN LET t == FromString(ft.name)
       IN IF t.raised # "" THEN [raised |-> t.raised]
          ELSE Returned(ParseAs(t.name, r))
  ELSE IF ft.kind = "enum" THEN Returned(ParseAs(ft.name, r))
  ELSE Returned([kind |-> "wire", wire |-> r])

\* ---- the arguments tried
MaxChars == 11
DateBase == <<"2", "0", "2", "4", "-", "0", "1", "-", "0", "1">>
\* the first n characters of "2024-01-01" repeated
DateText(n) == [k \in 1..n |-> DateBase[((k - 1) % Len(DateBase)) + 1]]
TextValues ==
  {DateText(n) : n \in 0..MaxChars}
    \cup {<<"2", "0", "2", "4", "-", "1", "-", "1">>, <<"2", "0", "2", "4", "-", "0", "1", "-", "1">>,
          <<"4", "2">>, <<" ", "4", "2", " ">>, <<"-", "7">>, <<"+", "5">>,
          <<"a", "b", "c">>, <<"4", ".", "7">>, <<"-">>, <<" ">>}
IntValues == {0, 7, 42, 0 - 7, 1234567, 20240101, 1234567890}
OptionId == <<"o", "1">>
OptionName == <<"G", "o", "l", "d">>
Email == <<"a", "@", "b", ".", "c">>
UserName == <<"A", "n", "n">>
DictValues ==
  { PyDict(<<>>),
    PyDict(<< <<"valueId", OptionId>> >>),
    PyDict(<< <<"valueId", OptionId>>, <<"displayName", OptionName>> >>),
    PyDict(<< <<"displayName", OptionName>> >>),
    PyDict(<< <<"emailAddress", Email>> >>),
    PyDict(<< <<"emailAddress", Email>>, <<"displayName", UserName>> >>) }
Values ==
  {PyStr(c) : c \in TextValues \cup {OptionId, Email}} \cup {PyInt(n) : n \in IntValues}
    \cup {PyNone} \cup DictValues
TypeArgs ==
  {[kind |-> "enum", name |-> t] : t \in FieldTypes}
    \cup {[kind |-> "str", name |-> t] : t \in FieldTypes \cup {"text", "Date", "BOOLEAN", ""}}
    \cup {[kind |-> "none", name |-> "None"]}

InitFV ==
  /\ fv_type \in TypeArgs
  /\ fv_value \in Values
  /\ fv_result = NoResult
  /\ fv_pc = "call"
  /\ fv_parsed = NoParsed
  /\ IdlePBO
  /\ IdleBUF
  /\ IdleCalls

CallFormatValue ==
  /\ fv_pc = "call"
  /\ fv_result' = FormatValue(fv_type, fv_value)
  /\ fv_pc' = "done"
  /\ UNCHANGED <<fv_type, fv_value, fv_parsed>>
  /\ UNCHANGED <<pboVars, bufVars, callVars>>

\* parse_value(field_type, format_value(field_type, value)): the value
\* format_value returned is handed to parse_value with the same field_type
CallParseValue ==
  /\ fv_pc = "done"
  /\ fv_result.raised = ""
  /\ fv_parsed' = ParseValue(fv_type, fv_result)
  /\ fv_pc' = "parsed"
  /\ UNCHANGED <<fv_type, fv_value, fv_result>>
  /\ UNCHANGED <<pboVars, bufVars, callVars>>

NextFV == CallFormatValue \/ CallParseValue

(***************************************************************************)
(* FileManager.apply_label (files/manager.py): one call                    *)
(***************************************************************************)

\* what field["type"] of the fetched label may be
SchemaFieldTypes == FieldTypes \cup {"text", "BOOLEAN"}
\* what self.label_manager.get_label(label_id) gives for field_id: it raises,
\* or the label has no such field, or the field with its type
ApplyLabelLookups == {"error", "absent"} \cup SchemaFieldTypes
\* what the remote side does after the request is built: all calls succeed,
\* modifyLabels raises HttpError or another error, or modifyLabels succeeds
\* and reading the file back raises
ApplyLabelOutcomes == {"ok", "http", "error", "readback"}
ApplyLabelValues == {PyStr(<<"4", "2">>), PyStr(<<"a", "b", "c">>), PyInt(42), PyNone}

NoModification == [raised |-> "", fieldId |-> "", key |-> "-", text |-> <<>>, int |-> 0]

\* the field modification apply_label builds for a field of type t
ApplyLabelModification(field, t, v) ==
  CASE t = "SELECTION" ->
         [raised |-> "", fieldId |-> field, key |-> "setSelectionValues", text |-> StrOf(v), int |-> 0]
    [] t \in {"TEXT", "LONG_TEXT"} ->
         [raised |-> "", fieldId |-> field, key |-> "setTextValues", text |-> StrOf(v), int |-> 0]
    [] t = "INTEGER" ->
         LET n == IntOf(v)
         IN [raised |-> n.raised, fieldId |-> field, key |-> "setIntegerValues",
             text |-> <<>>, int |-> n.int]
    [] t = "DATE" ->
         [raised |-> "", fieldId |-> field, key |-> "setDateValues", text |-> StrOf(v), int |-> 0]
    [] t = "USER" ->
         [raised |-> "", fieldId |-> field, key |-> "setUserValues", text |-> StrOf(v), int |-> 0]
    [] OTHER ->
         [raised |-> "ValueError", fieldId |-> field, key |-> "-", text |-> <<>>, int |-> 0]

\* the except clauses of apply_label and delete_label: HttpError becomes
\* RuntimeError, ValueError is raised again, any other error becomes
\* RuntimeError
Reraised(e) == IF e = "ValueError" THEN "ValueError" ELSE "RuntimeError"

InitApplyLabel ==
  /\ \E f \in {"F1", FileUrl("F1")}, fld \in {"", "f1"}, v \in ApplyLabelValues :
       apply_label = [pc |-> "prepare", file_id |-> f, label_id |-> "L1", field_id |-> fld,
                      value |-> v, field_type |-> "-", modification |-> NoModification,
                      calls |-> <<>>, audit |-> 0, result |-> "-"]
  /\ bulk_apply_labels = NoCall
  /\ delete_label = NoCall
  /\ format_search_query = NoCall
  /\ IdlePBO
  /\ IdleBUF
  /\ IdleFV

\* apply_label up to the remote call: the file id is extracted and, if a
\* field and a value are given, the field type is looked up and the field
\* modification is built.
ApplyLabelPrepare(lk) ==
  /\ apply_label.pc = "prepare"
  /\ LET a == [apply_label EXCEPT !.file_id = ExtractFileId(@)]
         m == ApplyLabelModification(a.field_id, lk, a.value)
     IN apply_label' =
          IF a.field_id # "" /\ a.value # PyNone
          THEN IF lk = "error"
               THEN [a EXCEPT !.pc = "done", !.result = Reraised("RuntimeError")]
               ELSE IF lk = "absent"
               THEN [a EXCEPT !.pc = "done", !.result = Reraised("ValueError")]
               ELSE IF m.raised # ""
               THEN [a EXCEPT !.pc = "done", !.field_type = lk, !.result = Reraised(m.raised)]
               ELSE [a EXCEPT !.pc = "send", !.field_type = lk, !.modification = m]
          ELSE [a EXCEPT !.pc = "send"]
  /\ UNCHANGED <<bulk_apply_labels, delete_label, format_search_query>>
  /\ UNCHANGED <<pboVars, bufVars, fvVars>>

\* apply_label from the remote call on: modifyLabels, the audit record, the
\* read-back of the file, the return value.
ApplyLabelSend(out) ==
  /\ apply_label.pc = "send"
  /\ LET call == [fileId |-> apply_label.file_id, labelId |-> apply_label.label_id,
                  fieldModifications |->
                    IF apply_label.modification = NoModification THEN <<>>
                    ELSE <<apply_label.modification>>]
         a == [apply_label EXCEPT !.pc = "done", !.calls = Append(@, call)]
     IN apply_label' =
          CASE out = "ok" -> [a EXCEPT !.audit = @ + 1, !.result = "success"]
            [] out = "readback" -> [a EXCEPT !.audit = @ + 1, !.result = Reraised("RuntimeError")]
            [] out = "http" -> [a EXCEPT !.result = Reraised("HttpError")]
            [] OTHER -> [a EXCEPT !.result = Reraised("Exception")]
  /\ UNCHANGED <<bulk_apply_labels, delete_label, format_search_query>>
  /\ UNCHANGED <<pboVars, bufVars, fvVars>>

NextApplyLabel ==
  \/ \E lk \in ApplyLabelLookups : ApplyLabelPrepare(lk)
  \/ \E out \in ApplyLabelOutcomes : ApplyLabelSend(out)

(***************************************************************************)
(* FieldValue.format_search_query (labels/fields.py): one call             *)
(*                                                                         *)
(* Strings are sequences of characters, so that lower() and the text of    *)
(* the query are computed.                                                 *)
(***************************************************************************)
UpperCase == <<"A", "B", "C", "D", "E", "F", "G", "H", "I", "J", "K", "L", "M", "N", "O", "P", "Q", "R", "S", "T", "U", "V", "W", "X", "Y", "Z">>
LowerCase == <<"a", "b", "c", "d", "e", "f", "g", "h", "i", "j", "k", "l", "m", "n", "o", "p", "q", "r", "s", "t", "u", "v", "w", "x", "y", "z">>

\* text.lower() and text.upper()
LowerChar(c) ==
  IF \E k \in 1..26 : UpperCase[k] = c
  THEN LowerCase[CHOOSE k \in 1..26 : UpperCase[k] = c] ELSE c
UpperChar(c) ==
  IF \E k \in 1..26 : LowerCase[k] = c
  THEN UpperCase[CHOOSE k \in 1..26 : LowerCase[k] = c] ELSE c
Lower(text) == [k \in 1..Len(text) |-> LowerChar(text[k])]
Upper(text) == [k \in 1..Len(text) |-> UpperChar(text[k])]

\* a variant that matches the operator as it is written
Normalize_AsWritten(text) == text

\* norm_op = operator.lower()
Normalize(text) == Lower(text)

\* the keys of valid_operators
ValidOperators ==
  { <<"i", "s", " ", "n", "u", "l", "l">>,
    <<"i", "s", " ", "n", "o", "t", " ", "n", "u", "l", "l">>,
    <<"=">>,
    <<"!", "=">>,
    <<"<">>,
    <<">">>,
    <<"<", "=">>,
    <<">", "=">>,
    <<"c", "o", "n", "t", "a", "i", "n", "s">>,
    <<"s", "t", "a", "r", "t", "s", " ", "w", "i", "t", "h">>,
    <<"i", "n">>,
    <<"n", "o", "t", " ", "i", "n">> }

\* valid_operators[norm_op]: every key is mapped to itself in upper case
QueryOp(norm_op) == Upper(norm_op)

NullOperators == {<<"i", "s", " ", "n", "u", "l", "l">>, <<"i", "s", " ", "n", "o", "t", " ", "n", "u", "l", "l">>}
ListOperators == {<<"i", "n">>, <<"n", "o", "t", " ", "i", "n">>}

PyList(items) == [kind |-> "list", chars |-> <<>>, int |-> 0, items |-> items]

\* f"'{v}'" if isinstance(v, str) else str(v), for a str or an int
Quoted(v) == IF v.kind = "str" THEN ReprStr(v.chars) ELSE StrOf(v)

\* ", ".join(formatted_values)
RECURSIVE JoinQuoted(_)
JoinQuoted(items) ==
  IF items = <<>> THEN <<>>
  ELSE Quoted(items[1]) \o (IF Len(items) > 1 THEN <<",", " ">> ELSE <<>>)
       \o JoinQuoted(Tail(items))

\* str(value) of a list: the repr of its items between brackets
RECURSIVE ReprList(_)
ReprList(items) ==
  IF items = <<>> THEN <<>>
  ELSE Quoted(items[1]) \o (IF Len(items) > 1 THEN <<",", " ">> ELSE <<>>)
       \o ReprList(Tail(items))
StrOfList(v) == <<"[">> \o ReprList(v.items) \o <<"]">>

\* field_path = f"labels/{label_id}.{field_id}"
FieldPath(label, field) ==
  <<"l", "a", "b", "e", "l", "s", "/">> \o label \o <<".">> \o field

\* if norm_op in ["is null", "is not null"]: return without a value
NeedsNoValue(norm_op) == norm_op \in NullOperators

\* FieldValue.format_search_query(label_id, field_id, operator, value)
FormatSearchQuery(label, field, operator, v) ==
  LET norm_op == Normalize(operator)
      query_op == QueryOp(norm_op)
      field_path == FieldPath(label, field)
  IN IF norm_op \notin ValidOperators THEN [raised |-> "ValueError", text |-> <<>>]
     ELSE IF NeedsNoValue(norm_op)
     THEN [raised |-> "", text |-> field_path \o <<" ">> \o query_op]
     ELSE IF v = PyNone THEN [raised |-> "ValueError", text |-> <<>>]
     ELSE IF norm_op \in ListOperators
     THEN LET value_str == IF v.kind = "list" THEN JoinQuoted(v.items) ELSE Quoted(v)
          IN [raised |-> "",
              text |-> query_op \o <<" ", "(">> \o value_str \o <<")", " ">> \o field_path]
     ELSE LET value_str == IF v.kind = "list" THEN StrOfList(v) ELSE Quoted(v)
          IN [raised |-> "", text |-> field_path \o <<" ">> \o query_op \o <<" ">> \o value_str]

\* ---- the arguments tried
\* the operators tried: the supported ones, supported ones written in other
\* cases, and unsupported ones
OperatorArgs ==
  ValidOperators
    \cup {Upper(o) : o \in ValidOperators}
    \cup { <<"I", "s", " ", "N", "u", "l", "l">>,
           <<"I", "s", " ", "n", "o", "t", " ", "N", "U", "L", "L">>,
           <<"C", "o", "n", "t", "a", "i", "n", "s">>,
           <<"S", "t", "a", "r", "t", "s", " ", "W", "i", "t", "h">>,
           <<"N", "o", "t", " ", "I", "n">> }
    \cup { <<"l", "i", "k", "e">>,
           <<"=", "=">>,
           <<"<", ">">>,
           <<"i", "s", " ", " ", "n", "u", "l", "l">>,
           <<"i", "s", "n", "u", "l", "l">>,
           <<" ", "=">>,
           <<"n", "o", "t">>, <<>> }
SearchValues ==
  { PyNone, PyStr(<<"x">>), PyStr(<<>>), PyInt(5),
    PyList(<<PyStr(<<"x">>), PyInt(5)>>), PyList(<<>>) }
SearchLabel == <<"L", "1">>
SearchField == <<"f", "1">>

InitSearchQuery ==
  /\ \E o \in OperatorArgs, v \in SearchValues :
       format_search_query = [pc |-> "call", label_id |-> SearchLabel, field_id |-> SearchField,
                              operator |-> o, value |-> v,
                              result |-> [raised |-> "-", text |-> <<>>]]
  /\ apply_label = NoCall
  /\ bulk_apply_labels = NoCall
  /\ delete_label = NoCall
  /\ IdlePBO
  /\ IdleBUF
  /\ IdleFV

CallFormatSearchQuery ==
  /\ format_search_query.pc = "call"
  /\ format_search_query' =
       [format_search_query EXCEPT
          !.pc = "done",
          !.result = FormatSearchQuery(format_search_query.label_id,
                                       format_search_query.field_id,
                                       format_search_query.operator,
                                       format_search_query.value)]
  /\ UNCHANGED <<apply_label, bulk_apply_labels, delete_label>>
  /\ UNCHANGED <<pboVars, bufVars, fvVars>>

NextSearchQuery == CallFormatSearchQuery

(***************************************************************************)
(* LabelManager.delete_label (labels/manager.py): one call                 *)
(***************************************************************************)

\* the "state" of the label get_label returns: the lifecycleState of the
\* response, "UNKNOWN" when the response has none
LabelStates ==
  {"DISABLED", "PUBLISHED", "UNPUBLISHED_DRAFT", "DELETED", "STATE_UNSPECIFIED", "UNKNOWN"}
LabelTitles == {"Contracts", "No Title"}
\* what the remote delete call does: it succeeds, it raises HttpError, it
\* raises another error
DeleteOutcomes == {"ok", "http", "error"}

NoLabel == [state |-> "-", title |-> "-"]

\* a variant that also deletes labels that are not disabled
Deletable_Always(st) == TRUE

\* if current_label["state"] != "DISABLED": raise ValueError
Deletable(st) == st = "DISABLED"

InitDeleteLabel ==
  /\ \E l \in {"L1", "L2", "L1@3"}, adm \in BOOLEAN :
       delete_label = [pc |-> "fetch", label_id |-> l, use_admin_access |-> adm,
                       current_label |-> NoLabel, deletes |-> <<>>, audit |-> <<>>,
                       result |-> "-"]
  /\ apply_label = NoCall
  /\ bulk_apply_labels = NoCall
  /\ format_search_query = NoCall
  /\ IdlePBO
  /\ IdleBUF
  /\ IdleFV

\* current_label = self.get_label(label_id) raises RuntimeError
DeleteLabelFetchFails ==
  /\ delete_label.pc = "fetch"
  /\ delete_label' = [delete_label EXCEPT !.pc = "done", !.result = Reraised("RuntimeError")]
  /\ UNCHANGED <<apply_label, bulk_apply_labels, format_search_query>>
  /\ UNCHANGED <<pboVars, bufVars, fvVars>>

\* current_label = self.get_label(label_id) and the check of its state
DeleteLabelFetch(st, title) ==
  /\ delete_label.pc = "fetch"
  /\ LET d == [delete_label EXCEPT !.current_label = [state |-> st, title |-> title]]
     IN delete_label' =
          IF Deletable(st) THEN [d EXCEPT !.pc = "delete"]
          ELSE [d EXCEPT !.pc = "done", !.result = Reraised("ValueError")]
  /\ UNCHANGED <<apply_label, bulk_apply_labels, format_search_query>>
  /\ UNCHANGED <<pboVars, bufVars, fvVars>>

\* self.labels_service.labels().delete(...).execute(), the audit record and
\* the return value
DeleteLabelCall(out) ==
  /\ delete_label.pc = "delete"
  /\ LET call == [name |-> "labels/" \o delete_label.label_id,
                  useAdminAccess |-> delete_label.use_admin_access]
         d == [delete_label EXCEPT !.pc = "done", !.deletes = Append(@, call)]
     IN delete_label' =
          CASE out = "ok" ->
                 [d EXCEPT !.audit = Append(@, [action |-> "delete_label",
                                                resource |-> delete_label.label_id,
                                                title |-> delete_label.current_label.title]),
                           !.result = "True"]
            [] out = "http" -> [d EXCEPT !.result = Reraised("HttpError")]
            [] OTHER -> [d EXCEPT !.result = Reraised("Exception")]
  /\ UNCHANGED <<apply_label, bulk_apply_labels, format_search_query>>
  /\ UNCHANGED <<pboVars, bufVars, fvVars>>

NextDeleteLabel ==
  \/ DeleteLabelFetchFails
  \/ \E st \in LabelStates, title \in LabelTitles : DeleteLabelFetch(st, title)
  \/ \E out \in DeleteOutcomes : DeleteLabelCall(out)

(***************************************************************************)
(* FileManager.bulk_apply_labels (files/manager.py): one call              *)
(***************************************************************************)

\* Whether FileManager has the attribute bulk_apply_labels: its def stands in
\* the body of the module-level function _create_field_modification, after
\* the return statements, so the class does not have it.
HasBulkApplyLabels == FALSE

\* the summary of a call that has not returned
NoBulkResult == [raised |-> "-", total |-> 0, successful |-> 0, failed |-> 0]

\* the entries the input lists are drawn from
EntryPool ==
  { [fileId |-> "F1", labelId |-> "L1", fieldId |-> "f1", value |-> "42"],
    [fileId |-> "F2", labelId |-> "L1", fieldId |-> "f1", value |-> "abc"],
    [fileId |-> "F1", labelId |-> "L2", fieldId |-> "", value |-> ""],
    [fileId |-> "", labelId |-> "L1", fieldId |-> "f1", value |-> "42"],
    [fileId |-> "F2", labelId |-> "", fieldId |-> "", value |-> ""] }

\* the loop of bulk_apply_labels as written: an entry without fileId or
\* labelId is skipped, every other entry becomes an apply operation
RECURSIVE BulkOperations(_)
BulkOperations(entries) ==
  IF entries = <<>> THEN <<>>
  ELSE LET e == Head(entries)
       IN (IF e.fileId = "" \/ e.labelId = "" THEN <<>>
           ELSE <<Op("apply", e.fileId, e.labelId, e.fieldId, e.value)>>)
          \o BulkOperations(Tail(entries))

InitBulkApplyLabels ==
  /\ \E n \in 0..MaxOps : \E es \in [1..n -> EntryPool] :
       bulk_apply_labels = [pc |-> "call", entries |-> es, operations |-> <<>>,
                            audit |-> 0, result |-> NoBulkResult]
  /\ apply_label = NoCall
  /\ delete_label = NoCall
  /\ format_search_query = NoCall
  /\ IdlePBO
  /\ IdleBUF
  /\ IdleFV

\* file_manager.bulk_apply_labels(entries): the attribute lookup on the
\* FileManager object, and (if the class had the method) the conversion of the
\* entries into the operations handed to batch_update_files
CallBulkApplyLabels ==
  /\ bulk_apply_labels.pc = "call"
  /\ bulk_apply_labels' =
       IF HasBulkApplyLabels
       THEN [bulk_apply_labels EXCEPT
               !.pc = "batch_update_files",
               !.operations = BulkOperations(bulk_apply_labels.entries)]
       ELSE [bulk_apply_labels EXCEPT
               !.pc = "done", !.result = [NoBulkResult EXCEPT !.raised = "AttributeError"]]
  /\ UNCHANGED <<apply_label, delete_label, format_search_query>>
  /\ UNCHANGED <<pboVars, bufVars, fvVars>>

NextBulkApplyLabels == CallBulkApplyLabels

(***************************************************************************)
(* Specifications: a run of process_batch_operation, a run of              *)
(* batch_update_files, a run of either, and a call of format_value.        *)
(***************************************************************************)
SpecPBO == InitPBO /\ [][NextPBO]_vars
SpecBUF == InitBUF /\ [][NextBUF]_vars
SpecFV == InitFV /\ [][NextFV]_vars
SpecPBOReporting == InitPBOReporting /\ [][NextPBO]_vars
SpecApplyLabel == InitApplyLabel /\ [][NextApplyLabel]_vars
SpecSearchQuery == InitSearchQuery /\ [][NextSearchQuery]_vars
SpecDeleteLabel == InitDeleteLabel /\ [][NextDeleteLabel]_vars
SpecBulkApplyLabels == InitBulkApplyLabels /\ [][NextBulkApplyLabels]_vars

\* one call of format_value (and parse_value) or of apply_label
InitEncode == InitFV \/ InitApplyLabel
NextEncode == NextFV \/ NextApplyLabel
SpecEncode == InitEncode /\ [][NextEncode]_vars

Init == InitPBO \/ InitBUF
Next == NextPBO \/ NextBUF
Spec == Init /\ [][Next]_vars

(***************************************************************************)
(* Claims about process_batch_operation                                    *)
(***************************************************************************)

Items == 1..Len(batch_data)
NeverSucceeded == Items \ succeeded

C2_Scenario(x) ==
  /\ pc = "done" /\ Len(batch_data) = 3 /\ retry_count = 3
  /\ succeeded = Items
  /\ calls[x] = 3
  /\ \A k \in Items \ {x} : calls[k] = 1

C2_RetrySuccessResult ==
  \A x \in Items :
    C2_Scenario(x) =>
      /\ results.successful = 3 /\ results.failed = 0 /\ results.skipped = 0
      /\ calls[x] = 3

\* C3: the returned skipped count equals the number of items for which no
\* attempt in any pass succeeded; skipped = 0 when every item succeeds on the
\* initial pass.
C3_SkippedIsNeverSucceeded ==
  pc = "done" => results.skipped = Cardinality(NeverSucceeded)

\* C4: the function always terminates: it runs at most retry_count + 1 passes,
\* invokes the operation function at most retry_count + 1 times for any item,
\* and runs no further pass after the first pass in which no item fails.
C4_Bounded ==
  /\ passes <= retry_count + 1
  /\ \A k \in Items : calls[k] <= retry_count + 1

C4_PassWasClean == pc = "items" /\ i = Len(current_batch) /\ failedThisPass = <<>>

C4_NoPassAfterClean == C4_PassWasClean => pc' = "finish"
C4_NoPassAfterLoop ==
  pc \in {"finish", "done"} => passes' = passes /\ calls' = calls

\* A natural number that every step of the function decreases: the passes
\* left, then the position in the pass.
C4_Measure ==
  LET width == Len(batch_data) + 3
      left == (retry_count - retry) * width
  IN CASE pc = "items" -> left + (Len(current_batch) - i) + 2
       [] pc = "retry_head" -> left + width
       [] pc = "finish" -> 1
       [] OTHER -> 0

C4_StepDecreases == C4_Measure' < C4_Measure
C4_NotStuck == pc # "done" => ENABLED NextPBO

\* Termination is stated as: every step decreases a natural number, and a
\* step is possible in every state but the final one.
C4_Terminates ==
  /\ [](C4_Bounded /\ C4_Measure >= 0 /\ C4_NotStuck)
  /\ [][C4_NoPassAfterClean]_vars
  /\ [][C4_NoPassAfterLoop]_vars
  /\ [][C4_StepDecreases]_vars

C4_Witness ==
  /\ pc = "done" /\ retry_count = MaxRetry /\ passes = retry_count + 1
  /\ \E k \in Items : calls[k] = retry_count + 1
  /\ \E k \in Items : calls[k] = 1

\* C5: in every retry pass N >= 1 the operation function is invoked exactly for
\* the items that failed in pass N-1, in their previous relative order, and
\* never for an item that has already succeeded; each retry pass is preceded by
\* one wait of retry_delay.
C5_InRetryPass ==
  (retry >= 1 /\ pc = "items") =>
    /\ Len(invoked) <= Len(prevFailed)
    /\ invoked = SubSeq(prevFailed, 1, Len(invoked))
    /\ (i = Len(current_batch) => invoked = prevFailed)
    /\ delays = retry
    /\ passes = retry + 1

C5_NotAfterSuccess == \A k \in succeeded : calls'[k] = calls[k]
C5_OneWaitPerPass ==
  \/ passes' = passes /\ delays' = delays
  \/ passes' = passes + 1 /\ delays' = delays + 1

C5_RetryOnlyPreviousFailures ==
  /\ []C5_InRetryPass
  /\ [][C5_NotAfterSuccess]_vars
  /\ [][C5_OneWaitPerPass]_vars

C5_Witness ==
  /\ retry = 2 /\ pc = "items" /\ i = Len(current_batch)
  /\ prevFailed = <<1, 3>> /\ invoked = <<1, 3>>
  /\ 2 \in succeeded /\ calls[2] = 1 /\ delays = 2

(***************************************************************************)
(* Claims about batch_update_files                                         *)
(***************************************************************************)

Range(seq) == {seq[k] : k \in 1..Len(seq)}
OpIds == 1..Len(operations)
WellFormed(k) == operations[k].file_id # "" /\ operations[k].label_id # ""
\* the (file, label) key of a well-formed operation, the file id normalised
KeyOf(k) == <<ExtractFileId(operations[k].file_id), operations[k].label_id>>
Keys == {KeyOf(k) : k \in {n \in OpIds : WellFormed(n)}}
CallsFor(key) ==
  SelectSeq(api_calls, LAMBDA c : c.fileId = key[1] /\ c.labelId = key[2])
FieldCallsFor(key) == SelectSeq(CallsFor(key), LAMBDA c : ~c.removeLabel)
RecordsOf(k) == SelectSeq(buf_results.results, LAMBDA r : r.op = k)
\* what get_label gave when the operation's field type was looked up
GaveFor(k) ==
  IF \E n \in 1..Len(fetches) : fetches[n].op = k
  THEN fetches[CHOOSE n \in 1..Len(fetches) : fetches[n].op = k].gave
  ELSE NoLookup
\* the input positions, in input order, of the operations of a key that satisfy P
RECURSIVE OpsWhere(_, _, _)
OpsWhere(key, P(_), k) ==
  IF k > Len(operations) THEN <<>>
  ELSE (IF WellFormed(k) /\ KeyOf(k) = key /\ P(k) THEN <<k>> ELSE <<>>)
       \o OpsWhere(key, P, k + 1)
FieldIdsOf(list) == [k \in 1..Len(list) |-> operations[list[k]].field_id]
ModFieldIds(call) ==
  [k \in 1..Len(call.fieldModifications) |-> call.fieldModifications[k].fieldId]

IsRemove(k) == operations[k].operation = "remove"
\* an apply operation carrying a field value
CarriesValue(k) ==
  /\ operations[k].operation = "apply"
  /\ operations[k].field_id # "" /\ operations[k].value # NoValue
\* an apply, update or unset operation that names a field and, unless it is an
\* unset, carries a value
NamesField(k) ==
  /\ operations[k].field_id # ""
  /\ \/ operations[k].operation = "unset"
     \/ operations[k].operation \in {"apply", "update"} /\ operations[k].value # NoValue
\* ... and whose field type lookup, if it needed one, did not come back
\* without the field
Builds(k) == NamesField(k) /\ GaveFor(k) # "absent"

C7_NeverCombined ==
  \A c \in Range(api_calls) : ~(c.removeLabel /\ c.fieldModifications # <<>>)

C7_TwoCalls(key) ==
  LET cs == CallsFor(key)
  IN /\ Len(cs) = 2
     /\ ~cs[1].removeLabel /\ cs[1].fieldModifications # <<>>
     /\ cs[2].removeLabel /\ cs[2].fieldModifications = <<>>

\* C7: for a key that has both a remove operation and an apply operation
\* carrying a field value, exactly two modifyLabels calls are issued, the
\* field-modification call first and the removeLabel call second, whatever the
\* order of the two operations in the input; no call body contains both
\* removeLabel and fieldModifications.
C7_SeparateCalls ==
  /\ C7_NeverCombined
  /\ buf_pc = "done" =>
       \A key \in Keys :
         (/\ OpsWhere(key, IsRemove, 1) # <<>>
          /\ OpsWhere(key, CarriesValue, 1) # <<>>) => C7_TwoCalls(key)

\* C8: all apply/update/unset operations that share one key are submitted in a
\* single modifyLabels call whose fieldModifications list has one entry per
\* operation in input order (two entries for two operations with different
\* field ids; a later operation on an already used field id appends another
\* entry rather than replacing the earlier one).
C8_OneCallWith(key, list) ==
  list # <<>> =>
    /\ Len(FieldCallsFor(key)) = 1
    /\ ModFieldIds(FieldCallsFor(key)[1]) = FieldIdsOf(list)

C8_SingleCallInOrder ==
  buf_pc = "done" => \A key \in Keys : C8_OneCallWith(key, OpsWhere(key, NamesField, 1))

\* C9: an operation with an empty or missing file_id appears in no remote call
\* and in no result record, is counted in neither successful nor failed, and
\* is still counted in the returned total (total = length of the input list).
C9_NoFileDropped ==
  /\ buf_pc # "idle" => buf_results.total = Len(operations)
  /\ \A c \in Range(api_calls) : c.fileId # ""
  /\ buf_results.successful =
       Len(SelectSeq(buf_results.results, LAMBDA r : r.success))
  /\ buf_results.failed =
       Len(SelectSeq(buf_results.results, LAMBDA r : ~r.success))
  /\ \A k \in OpIds :
       MissingFile(operations[k]) =>
         /\ \A g \in Range(file_groups) : k \notin Range(g.ops)
         /\ \A c \in Range(api_calls) : k \notin Range(c.ops)
         /\ RecordsOf(k) = <<>>

C9_Witness ==
  /\ buf_pc = "done"
  /\ Len(operations) = 3 /\ buf_results.total = 3
  /\ MissingFile(operations[2])
  /\ Len(api_calls) = 2
  /\ buf_results.successful + buf_results.failed = 2

\* C10: when batch_update_files returns, total - (successful + failed) equals
\* exactly the number of input operations that lack a file_id or a label_id:
\* every operation that has both is recorded exactly once, as successful or as
\* failed.
C10_EveryOperationAccounted ==
  buf_pc = "done" =>
    /\ buf_results.total - (buf_results.successful + buf_results.failed)
         = Cardinality({k \in OpIds : ~WellFormed(k)})
    /\ \A k \in OpIds : WellFormed(k) => Len(RecordsOf(k)) = 1

(***************************************************************************)
(* Claims about process_batch_operation: pauses and error classes          *)
(***************************************************************************)

\* a step that invokes operation_func on an item
Invokes == calls' # calls

\* C11: for any sequence of rate-limit (HTTP 429) responses in a run, every
\* inter-batch pause issued after a 429 is at most the cap of 10 seconds: a 429
\* leaves pause_seconds at most the cap, pause_seconds never rises above the
\* cap again, and every pause slept is the pause_seconds of that moment.
C11_Step ==
  /\ (Invokes /\ last'.outcome = "http429") => pause_seconds' <= PauseCap
  /\ pause_seconds <= PauseCap => pause_seconds' <= PauseCap
  /\ (Invokes /\ last'.slept # -1) => last'.slept = pause_seconds
C11_PauseCapped == [][C11_Step]_vars

\* a pause of exactly the cap is slept, after 429 responses have raised
\* pause_seconds to it (no run starts with a pause equal to the cap)
C11_Witness ==
  /\ PauseCap \notin PauseArgs
  /\ pause_seconds = PauseCap
  /\ last.slept = PauseCap

\* C12 as stated: an item whose operation fails with a permission-denied error
\* (HTTP 403) is surfaced as failed and is not invoked again in any later pass
\* (while an item failing with a generic service error is retried): the item
\* whose invocation has just failed with 403 is never the next item invoked.
C12_DeniedNotInvokedNext ==
  ~(Invokes /\ last.outcome = "http403" /\ last'.item = last.item)
C12_AsStated == [][C12_DeniedNotInvokedNext]_vars

\* C12 (amended): a failure with HTTP 403 is handled like every other failure,
\* generic service errors included: it is counted as failed on the initial
\* pass and, while a configured pass remains, the item is queued for the next
\* pass, which invokes exactly the items that failed in the pass before, in
\* order.
C12_FailureStep ==
  (Invokes /\ last'.outcome # "ok") =>
    /\ failedThisPass' = Append(failedThisPass, last'.item)
    /\ retry < retry_count => new_failed_items' = Append(new_failed_items, last'.item)
    /\ retry = 0 => results'.failed = results.failed + 1
C12_RetryPassBatch ==
  (pc = "items" /\ retry > 0) =>
    /\ current_batch = prevFailed
    /\ invoked = SubSeq(current_batch, 1, i)
C12_DeniedRetriedAlike == [][C12_FailureStep]_vars /\ []C12_RetryPassBatch

\* a retry pass is about to invoke the item that has just failed with 403
C12_Witness ==
  /\ pc = "items" /\ retry = 1 /\ i = 0
  /\ last.outcome = "http403"
  /\ current_batch = <<last.item>>
  /\ results.failed = 1

(***************************************************************************)
(* Claims about batch_update_files: fetches, order of calls and records    *)
(***************************************************************************)

\* C13: during one run of batch_update_files the label schema of each distinct
\* label_id is fetched (label_manager.get_label) at most once, however many
\* operations reference that label.
C13_FetchedOncePerLabel ==
  \A a, b \in 1..Len(fetches) :
    a # b => fetches[a].label_id # fetches[b].label_id

\* the input position at which a (normalised) file id is first seen
FirstSeenFile(f) ==
  CHOOSE k \in OpIds :
    /\ ~MissingFile(operations[k]) /\ ExtractFileId(operations[k].file_id) = f
    /\ \A j \in 1..(k - 1) :
         MissingFile(operations[j]) \/ ExtractFileId(operations[j].file_id) # f
\* the input position at which a label id is first seen among a file's operations
FirstSeenKey(key) ==
  CHOOSE k \in OpIds :
    /\ WellFormed(k) /\ KeyOf(k) = key
    /\ \A j \in 1..(k - 1) : ~(WellFormed(j) /\ KeyOf(j) = key)
CallKey(c) == <<c.fileId, c.labelId>>
\* group a is the same as, or comes before, group b
NotAfter(a, b) ==
  \/ a = b
  \/ FirstSeenFile(a[1]) < FirstSeenFile(b[1])
  \/ a[1] = b[1] /\ FirstSeenKey(a) < FirstSeenKey(b)

\* C14: the remote calls are issued in group order: files in the order their
\* normalised file_id is first seen in the input, within one file the labels
\* in the order their label_id is first seen; all calls of one (file, label)
\* group are issued before any call of the next group.
C14_CallsInGroupOrder ==
  /\ \A c \in Range(api_calls) : CallKey(c) \in Keys
  /\ \A m, n \in 1..Len(api_calls) :
       m < n => /\ NotAfter(CallKey(api_calls[m]), CallKey(api_calls[n]))
                /\ CallKey(api_calls[m]) = CallKey(api_calls[n])
                     => \A j \in m..n : CallKey(api_calls[j]) = CallKey(api_calls[m])

C14_Witness ==
  /\ buf_pc = "done"
  /\ Len(operations) = 3 /\ Len(api_calls) = 3
  /\ operations[2].file_id = FileUrl("F1")
  /\ CallKey(api_calls[1]) = <<"F2", "L1">>
  /\ CallKey(api_calls[2]) = <<"F1", "L2">>
  /\ CallKey(api_calls[3]) = <<"F1", "L1">>

\* two outcome records of the same (file, label) group, the first listed earlier
SameGroupRecords(m, n) ==
  /\ m < n
  /\ KeyOf(buf_results.results[m].op) = KeyOf(buf_results.results[n].op)

\* C15 as stated: in the returned result list the outcome records of the
\* operations of one (file_id, label_id) group appear in the relative order in
\* which those operations were submitted, including when a remove operation
\* was submitted before an apply operation.
C15_AsStated ==
  buf_pc = "done" =>
    \A m, n \in 1..Len(buf_results.results) :
      SameGroupRecords(m, n) => buf_results.results[m].op < buf_results.results[n].op

\* C15 (amended): the outcome records of one group list its apply, update and
\* unset operations first, in submission order, and then its remove
\* operations, in submission order, wherever the remove operations stood in
\* the input.
C15_ApplyRecordsThenRemove ==
  \A m, n \in 1..Len(buf_results.results) :
    SameGroupRecords(m, n) =>
      LET a == buf_results.results[m].op
          b == buf_results.results[n].op
      IN /\ IsRemove(a) => IsRemove(b)
         /\ (IsRemove(a) <=> IsRemove(b)) => a < b

C15_Witness ==
  /\ buf_pc = "done"
  /\ Len(operations) = 3
  /\ IsRemove(1) /\ operations[2].operation = "apply" /\ operations[3].operation = "unset"
  /\ [k \in 1..Len(buf_results.results) |-> buf_results.results[k].op] = <<2, 3, 1>>

(***************************************************************************)
(* Claims about the end of a run: final progress emission, audit record    *)
(***************************************************************************)

Unencodable(k) ==
  /\ NeedsLookup(operations[k])
  /\ GaveFor(k) \in SchemaTypes
  /\ CreateFieldModification(operations[k].field_id, GaveFor(k), operations[k].value).raised

\* C18: an apply/update operation whose value cannot be encoded for the
\* declared type of its field (a non-numeric value for an INTEGER field) is
\* not sent to the remote service, and the other operations of the same group
\* are still submitted.
C18_UnencodableNotSent ==
  buf_pc = "done" =>
    \A k \in OpIds :
      (WellFormed(k) /\ Unencodable(k)) =>
        /\ \A c \in Range(api_calls) :
             k \in Range(c.ops) =>
               \A m \in Range(c.fieldModifications) :
                 ~(m.fieldId = operations[k].field_id /\ m.value = operations[k].value)
        /\ \A j \in OpIds :
             (WellFormed(j) /\ KeyOf(j) = KeyOf(k) /\ (IsRemove(j) \/ Builds(j))
                /\ ~Unencodable(j))
               => \E c \in Range(api_calls) : j \in Range(c.ops)

(***************************************************************************)
(* Claims about FieldValue.format_value                                    *)
(***************************************************************************)

\* the call has returned or raised, and field_type named the member t
Formatted(t) ==
  fv_pc = "done" /\ fv_type.kind \in {"enum", "str"} /\ fv_type.name = t

\* C19: format_value for type DATE fails exactly when the stringified value is
\* shorter than 10 characters: "2024-1-1" is rejected, "2024-01-01" is
\* accepted and passed through unmodified.
C19_DateShorterThanTenFails ==
  Formatted("DATE") =>
    /\ fv_result.raised # "" <=> Len(StrOf(fv_value)) < 10
    /\ fv_result.raised = "" => fv_result = WireText("dateValue", "", StrOf(fv_value))

\* C20: format_value for type INTEGER returns the wire value {integerValue: n}
\* when the input parses as the whole number n ("42" and 42 both give 42) and
\* fails with a value error for every input that does not parse as an integer
\* ("abc"); it never returns a wire value for an unparseable input.
C20_IntegerOrValueError ==
  Formatted("INTEGER") =>
    IF fv_value.kind = "int" THEN fv_result = WireInt("integerValue", fv_value.int)
    ELSE IF fv_value.kind = "str" /\ IntOfStr(fv_value.chars).raised = ""
    THEN fv_result = WireInt("integerValue", IntOfStr(fv_value.chars).int)
    ELSE fv_result = Raised("ValueError")

(***************************************************************************)
(* Claims about process_batch_operation: backoff, counters, pauses         *)
(***************************************************************************)

\* C26: each rate-limit (HTTP 429) failure makes the pause used for later
\* inter-batch sleeps strictly longer than it was before, unless the pause is
\* already at the cap; failures with any other status leave the pause unchanged.
C26_Step ==
  Invokes =>
    IF last'.outcome = "http429"
    THEN pause_seconds # PauseCap => pause_seconds' > pause_seconds
    ELSE pause_seconds' = pause_seconds
C26_BackoffStrictlyLonger == [][C26_Step]_vars

\* pass 0 is over: a retry pass runs, or the pass loop has been left
C28_AfterPassZero ==
  \/ retry > 0
  \/ pc \in {"retry_head", "finish", "done"}
  \/ (pc = "items" /\ i = Len(current_batch))

\* C28: from the end of pass 0 until return, successful + failed = total, and
\* failed never goes below 0: each item is counted once in pass 0 (after i
\* items of pass 0, successful + failed = i), and a retry success moves exactly
\* one unit from failed to successful (failed counts the items that have not
\* succeeded, successful those that have).
C28_CountersBalanced ==
  /\ pc \in {"items", "retry_head", "finish", "done"} => results.failed >= 0
  /\ (pc = "items" /\ retry = 0) => results.successful + results.failed = i
  /\ (pc # "idle" /\ C28_AfterPassZero) =>
       /\ results.successful + results.failed = results.total
       /\ results.successful = Cardinality(succeeded)
       /\ results.failed = Cardinality(NeverSucceeded)

\* a run has returned in which one item succeeded on a retry and another
\* item never succeeded
C28_Witness ==
  /\ pc = "done"
  /\ \E k \in succeeded : calls[k] >= 2
  /\ results.failed >= 1
  /\ results.successful >= 1

\* C30: within each pass, one inter-batch pause is taken after every
\* batch_size-th item of the pass except after the last item of the pass,
\* whether the item at that position succeeded, returned False or raised an
\* error.
C30_Step ==
  Invokes =>
    (last'.slept # -1 <=> ((i + 1) % batch_size = 0 /\ i + 1 < Len(current_batch)))
C30_PauseAfterEveryBatch == [][C30_Step]_vars

\* C29: every progress emission of process_batch_operation satisfies
\* 0 <= current <= total, for every input size and every pattern of successes
\* and failures.
C29_ProgressWithinTotal ==
  (pc # "idle" /\ emitted # NoEmission) =>
    (0 <= emitted.current /\ emitted.current <= emitted.total)

(***************************************************************************)
(* Claims about batch_update_files: the wire form of field modifications   *)
(***************************************************************************)

\* the wire key the claim names for a declared field type
C27_WireKey(t) ==
  CASE t = "INTEGER" -> "setIntegerValues"
    [] t = "DATE" -> "setDateValues"
    [] t = "SELECTION" -> "setSelectionValues"
    [] t = "USER" -> "setUserValues"
    [] OTHER -> "setTextValues"

\* a call that carries operation k submits for its field a modification with
\* this key
C27_SubmittedAs(k, key) ==
  \A c \in Range(api_calls) :
    k \in Range(c.ops) =>
      \E m \in Range(c.fieldModifications) :
        m.fieldId = operations[k].field_id /\ m.key = key

\* C27: for every apply/update operation whose field is found in the fetched
\* label schema, the submitted field modification uses the wire key of the
\* declared field type (INTEGER -> setIntegerValues, DATE -> setDateValues,
\* SELECTION -> setSelectionValues, USER -> setUserValues, TEXT/LONG_TEXT ->
\* setTextValues), and an unset operation is submitted as a modification with
\* the unset marker and no value.
C27_TypedWireKey ==
  buf_pc = "done" =>
    \A k \in OpIds :
      WellFormed(k) =>
        /\ (NeedsLookup(operations[k]) /\ GaveFor(k) \in SchemaTypes
              /\ ~Unencodable(k))
             => C27_SubmittedAs(k, C27_WireKey(GaveFor(k)))
        /\ (operations[k].operation = "unset" /\ operations[k].field_id # "")
             => C27_SubmittedAs(k, "unsetValues")

(***************************************************************************)
(* Claims about FieldValue.format_value and parse_value together           *)
(***************************************************************************)

\* the value format_value encodes for type t: the text of the value, its
\* whole number, or the identifier (user address, option id)
C21_Encoded(t, v) ==
  CASE t = "INTEGER" -> PyInt(IntOf(v).int)
    [] t = "USER" /\ v.kind = "dict" /\ HasKey(v, "emailAddress") -> ItemOf(v, "emailAddress")
    [] t = "SELECTION" /\ v.kind = "dict" /\ HasKey(v, "valueId") -> ItemOf(v, "valueId")
    [] OTHER -> PyStr(StrOf(v))

\* a SELECTION record that carries a display name next to the option id
C21_NamedOption(t, v) ==
  t = "SELECTION" /\ v.kind = "dict" /\ HasKey(v, "valueId") /\ HasKey(v, "displayName")

\* C21 as stated: for every field type and every value v that format_value
\* accepts for it, parse_value(type, format_value(type, v)) returns the logical
\* value v; for SELECTION and USER it returns the identifier that was encoded
\* (the option id, the user address), also when the input was a structured
\* record that carries a display name next to the identifier.
C21_AsStated ==
  fv_pc = "parsed" => fv_parsed = Returned(C21_Encoded(fv_type.name, fv_value))

\* C21: for every field type and every value v that format_value accepts for
\* it, parse_value(type, format_value(type, v)) returns the encoded value
\* (str(v) for TEXT, LONG_TEXT and DATE, int(v) for INTEGER, the user address
\* for USER, the option id for SELECTION), except that for a SELECTION record
\* that carries a display name next to the option id it returns the display
\* name.
C21_RoundTrip ==
  fv_pc = "parsed" =>
    IF C21_NamedOption(fv_type.name, fv_value)
    THEN fv_parsed = Returned(ItemOf(fv_value, "displayName"))
    ELSE fv_parsed = Returned(C21_Encoded(fv_type.name, fv_value))

\* a user record with a display name has made the round trip and come back as
\* its address
C21_Witness ==
  /\ fv_pc = "parsed"
  /\ fv_type.name = "USER"
  /\ fv_value.kind = "dict" /\ HasKey(fv_value, "displayName")
  /\ fv_parsed = Returned(PyStr(Email))

(***************************************************************************)
(* Claims about field types, search queries, delete_label and              *)
(* bulk_apply_labels                                                       *)
(***************************************************************************)

\* the closed set of field types
C22_ClosedSet == {"TEXT", "LONG_TEXT", "INTEGER", "DATE", "USER", "SELECTION"}

\* C22: encoding a value for a field type outside the closed set {TEXT,
\* LONG_TEXT, INTEGER, DATE, USER, SELECTION} fails and produces no wire value;
\* type names are matched case-sensitively, so "text" is rejected. This holds
\* for FieldValue.format_value (a returned format_value means the type is in
\* the set), for FieldType.from_string (it raises exactly for the names outside
\* the set) and for FileManager.apply_label (it raises a value error and makes
\* no remote call).
C22_UnknownTypeRejected ==
  /\ fv_pc \in {"done", "parsed"} =>
       /\ fv_type.kind = "str" =>
            (FromString(fv_type.name).raised = "ValueError" <=> fv_type.name \notin C22_ClosedSet)
       /\ ~(fv_type.kind \in {"str", "enum"} /\ fv_type.name \in C22_ClosedSet)
            => fv_result = Raised("ValueError")
  /\ (apply_label.pc = "done" /\ apply_label.field_type \notin C22_ClosedSet \cup {"-"}) =>
       /\ apply_label.result = "ValueError"
       /\ apply_label.calls = <<>>
       /\ apply_label.audit = 0

\* format_value has been called with the type name "text" and has raised
C22_Witness ==
  /\ fv_pc = "done"
  /\ fv_type = [kind |-> "str", name |-> "text"]
  /\ fv_result = Raised("ValueError")

\* C23: FieldValue.format_search_query: for the operators "is null" and "is
\* not null" the result contains no value clause and is the same for every
\* supplied value; for every other supported operator an absent value raises a
\* missing-value error; an operator outside the supported set raises an
\* invalid-operator error, with operators matched case-insensitively (a
\* supported operator written in any case is accepted).
C23_SearchQueryRules ==
  format_search_query.pc = "done" =>
    LET q == format_search_query
        op == Lower(q.operator)
    IN /\ op \in NullOperators =>
            q.result = [raised |-> "",
                        text |-> FieldPath(q.label_id, q.field_id) \o <<" ">> \o Upper(op)]
       /\ (op \in ValidOperators \ NullOperators /\ q.value = PyNone) =>
            q.result = [raised |-> "ValueError", text |-> <<>>]
       /\ (op \in ValidOperators \ NullOperators /\ q.value # PyNone) =>
            q.result.raised = ""
       /\ op \notin ValidOperators => q.result = [raised |-> "ValueError", text |-> <<>>]

\* "IS NULL" written in upper case and given a value has produced the query
\* without a value clause
C23_Witness ==
  /\ format_search_query.pc = "done"
  /\ format_search_query.operator = <<"I", "S", " ", "N", "U", "L", "L">>
  /\ format_search_query.value = PyInt(5)
  /\ format_search_query.result.raised = ""

\* C24: LabelManager.delete_label issues the remote delete call only when the
\* fetched label state is DISABLED; for a label in any other state it raises a
\* value error, issues no remote delete call and writes no audit record.
C24_DeleteOnlyDisabled ==
  delete_label.pc # "idle" =>
    /\ delete_label.deletes # <<>> =>
         (delete_label.current_label.state = "DISABLED" /\ Len(delete_label.deletes) = 1)
    /\ (delete_label.pc = "done" /\ delete_label.current_label # NoLabel
          /\ delete_label.current_label.state # "DISABLED") =>
         /\ delete_label.result = "ValueError"
         /\ delete_label.deletes = <<>>
         /\ delete_label.audit = <<>>
    /\ delete_label.audit # <<>> => delete_label.deletes # <<>>

\* a published label was fetched and the call ended with a value error
C24_Witness ==
  /\ delete_label.pc = "done"
  /\ delete_label.current_label.state = "PUBLISHED"
  /\ delete_label.result = "ValueError"
  /\ delete_label.deletes = <<>>

\* C25: FileManager.bulk_apply_labels over N entries that each have a fileId
\* and a labelId, when every remote apply succeeds, returns total = N,
\* successful = N and failed = 0, and writes exactly one audit record for the
\* whole call.
C25_BulkAllApplied ==
  (/\ bulk_apply_labels.pc = "done"
   /\ \A k \in 1..Len(bulk_apply_labels.entries) :
        bulk_apply_labels.entries[k].fileId # "" /\ bulk_apply_labels.entries[k].labelId # "")
    => /\ bulk_apply_labels.result =
            [raised |-> "", total |-> Len(bulk_apply_labels.entries),
             successful |-> Len(bulk_apply_labels.entries), failed |-> 0]
       /\ bulk_apply_labels.audit = 1

====
